---- MODULE Spec2Model ----
(***************************************************************************)
(* Ownership model of NativeVsync (src/src/lib.rs), the owning wrapper     *)
(* around one OH_NativeVSync handle, together with the native vsync        *)
(* service it calls (create, destroy, request-frame, get-period) and the   *)
(* native thread that fires armed frame callbacks.                         *)
(***************************************************************************)
EXTENDS Integers, Sequences, FiniteSets, Bags, TLC

(* ------------------------------ bounds -------------------------------- *)

\* Rust values of type NativeVsync constructed in one run (new + from_raw).
MaxInst == 2
\* Non-null handles the native service can allocate in one run.
MaxHandles == 2
\* Native request-frame calls in one run.
MaxRequests == 3

(* --------------------------- value domains ---------------------------- *)

\* The null pointer, which OH_NativeVSync_Create may return.
Null == 0

\* Raw handle values: the null pointer and the addresses of native objects.
Handles == 0..MaxHandles

\* User-data pointers a caller passes to request_raw_callback: an address of
\* the application that is no handle.
DataPtrs == {100}

\* Frame callbacks (function pointers) a caller may pass.
Callbacks == {"cbA", "cbB"}

\* Native status codes: 0 is success, the others are native error codes.
Statuses == {0, 1, -1, 12345}

\* A 64-bit quantity k * 2^B + r with |r| small, kept as the pair (k, r) so
\* that values around 2^32, 2^63 and 2^64 stay exact.  B is 32 for usize
\* lengths and 63 for the i64 / u64 period.
Big(k, r) == [k |-> k, r |-> r]

\* a < b for two quantities over the same B (|r| is far below 2^B).
BigLess(a, b) == a.k < b.k \/ (a.k = b.k /\ a.r < b.r)

\* u32::MAX = 2^32 - 1, with B = 32.
U32Max == Big(1, -1)

\* Byte lengths of the names passed to new (B = 32): 0, 4 ("test"),
\* 2^32 - 1, 2^32 and 2^32 + 1.
NameLens == {Big(0, 0), Big(0, 4), Big(1, -1), Big(1, 0), Big(1, 1)}

\* Values the native service may leave in the i64 out-parameter (B = 63):
\* -1 (the initial value), 0, 16666667, i64::MIN and i64::MAX.
PeriodOuts == {Big(0, -1), Big(0, 0), Big(0, 16666667), Big(-1, 0), Big(1, -1)}

(* ------------------------------- state -------------------------------- *)

VARIABLES
    debugAssertions, \* whether the build keeps debug_assert! (debug profile)
    insts,           \* every NativeVsync value constructed so far: [raw, st, via]
    allocated,       \* number of non-null handles the native service created
    destroyLog,      \* bag of the OH_NativeVSync_Destroy calls made: [h, by]
    pending,         \* bag of armed frame callbacks: [h, cb, data, self]
    tokens,          \* bag of raw handles held outside any instance: [h, src]
    nativeCalls,     \* counts: native create calls, native request-frame
                     \* calls, request operations invoked
    panicked,        \* a debug assertion failed
    last             \* the operation of the last step and what it returned

vars == <<debugAssertions, insts, allocated, destroyLog, pending, tokens,
          nativeCalls, panicked, last>>

(* --------------------------- result values ---------------------------- *)

OkUnit == [tag |-> "Ok", err |-> "", code |-> 0]
InvalidArgs == [tag |-> "Err", err |-> "InvalidArgs", code |-> 0]
CreateFailed == [tag |-> "Err", err |-> "CreateFailed", code |-> 0]
RawErr(c) == [tag |-> "Err", err |-> "RawErr", code |-> c]
Panic == [tag |-> "Panic", err |-> "", code |-> 0]

\* The diagnostic lines an operation writes with debug!: one, by a get_period
\* whose native call failed.
DebugLines(op, res) == IF op = "get_period" /\ res.tag = "Err" THEN 1 ELSE 0

\* What a step records about the operation it performed: the instance and
\* handle it acted on, the callback, user-data and status of its native call,
\* its 64-bit input or out-parameter (the name length of new, the period of
\* get_period), the Result it returned, the value inside an Ok and the
\* diagnostic lines it wrote.
Rec(op, inst, h, cb, data, status, out, res, val) ==
    [op |-> op, inst |-> inst, h |-> h, cb |-> cb, data |-> data,
     status |-> status, out |-> out, res |-> res, val |-> val,
     log |-> DebugLines(op, res)]

\* The instance new builds around the pointer the native create returned.
NewInst(raw) == [raw |-> raw, st |-> "live", via |-> "new"]

NoBig == Big(0, 0)

(* ------------------------------ helpers ------------------------------- *)

Live(i) == i \in DOMAIN insts /\ insts[i].st = "live"

LiveInsts == {i \in DOMAIN insts : insts[i].st = "live"}

\* Sum of f over the finite set S.
RECURSIVE Sum(_, _)
Sum(f, S) ==
    IF S = {} THEN 0
    ELSE LET x == CHOOSE y \in S : TRUE IN f[x] + Sum(f, S \ {x})

\* Number of destroy calls in a log made on handle h.
DestroyCount(log, h) == Sum(log, {c \in DOMAIN log : c.h = h})

\* Number of destroy calls in a log made by instance i.
DestroysBy(log, i) == Sum(log, {c \in DOMAIN log : c.by = i})

\* OH_NativeVSync_Destroy(raw), called by instance i.
NativeDestroy(log, i, raw) == log (+) SetToBag({[h |-> raw, by |-> i]})

\* A Drop that does not call the native destroy.
DropGlueLeaks(log, i, raw) == log

\* A drop glue that makes no native call for a null pointer.
DropGlueNullChecked(log, i, raw) ==
    IF raw = Null THEN log ELSE NativeDestroy(log, i, raw)

\* impl Drop for NativeVsync: the destroy log after instance i is dropped.
DropGlue(log, i, raw) == NativeDestroy(log, i, raw)

\* core::mem::forget(self): the value goes away and its Drop does not run.
Forget(log, i, raw) == log

(* -------------------------------- Init -------------------------------- *)

Init ==
    /\ debugAssertions \in BOOLEAN
    /\ insts = <<>>
    /\ allocated = 0
    /\ destroyLog = EmptyBag
    /\ pending = EmptyBag
    /\ tokens = EmptyBag
    /\ nativeCalls = [create |-> 0, request |-> 0, requestOps |-> 0]
    /\ panicked = FALSE
    /\ last = Rec("init", 0, Null, "", Null, 0, NoBig, OkUnit, NoBig)

(* ---------------------------- NativeVsync::new ------------------------ *)

\* A length check that is off by one: it lets 2^32 through.
FitsU32OffByOne(len) == ~BigLess(Big(1, 0), len)

\* name.len().try_into::<u32>() succeeds.
FitsU32(len) == ~BigLess(U32Max, len)

\* What OH_NativeVSync_Create may return: null, or a fresh native object.
CreateReturns == {Null} \cup (IF allocated < MaxHandles THEN {allocated + 1} ELSE {})

\* A new that reports a null pointer as CreateFailed.
NewResultNullChecked(raw) == IF raw = Null THEN CreateFailed ELSE OkUnit

\* The Result new gives for the pointer the native create call returned.
NewResult(raw) == OkUnit

New(len, raw) ==
    /\ ~panicked
    /\ Len(insts) < MaxInst
    /\ IF ~FitsU32(len)
       THEN /\ last' = Rec("new", 0, Null, "", Null, 0, len, InvalidArgs, NoBig)
            /\ UNCHANGED <<insts, allocated, nativeCalls>>
       ELSE /\ raw \in CreateReturns
            /\ nativeCalls' = [nativeCalls EXCEPT !.create = @ + 1]
            /\ allocated' = IF raw = Null THEN allocated ELSE raw
            /\ IF NewResult(raw).tag = "Ok"
               THEN /\ insts' = Append(insts, NewInst(raw))
                    /\ last' = Rec("new", Len(insts) + 1, raw, "", Null, 0, len,
                                   NewResult(raw), NoBig)
               ELSE /\ insts' = insts
                    /\ last' = Rec("new", 0, raw, "", Null, 0, len,
                                   NewResult(raw), NoBig)
    /\ UNCHANGED <<debugAssertions, destroyLog, pending, tokens, panicked>>

(* ------------------------- NativeVsync::from_raw ---------------------- *)

\* The two debug_assert! of from_raw pass.  OH_NativeVSync is an opaque type
\* of alignment 1, so is_aligned() holds of every pointer and only the null
\* test can fail; release builds compile both assertions out.
FromRawAsserts(dbg, raw) == dbg => raw # Null

\* The instance from_raw builds around the pointer it is given.
FromRawInst(raw) == [raw |-> raw, st |-> "live", via |-> "from_raw"]

\* from_raw applied to a raw handle that carries ownership: one returned by
\* into_raw, or the user-data a fired consuming request delivered.
FromRaw(tok) ==
    /\ ~panicked
    /\ Len(insts) < MaxInst
    /\ BagIn(tok, tokens)
    /\ tokens' = tokens (-) SetToBag({tok})
    /\ IF FromRawAsserts(debugAssertions, tok.h)
       THEN /\ insts' = Append(insts, FromRawInst(tok.h))
            /\ panicked' = FALSE
            /\ last' = Rec("from_raw", Len(insts) + 1, tok.h, "", Null, 0, NoBig,
                           OkUnit, NoBig)
       ELSE /\ insts' = insts
            /\ panicked' = TRUE
            /\ last' = Rec("from_raw", 0, tok.h, "", Null, 0, NoBig, Panic, NoBig)
    /\ UNCHANGED <<debugAssertions, allocated, destroyLog, pending, nativeCalls>>

(* ------------------------- NativeVsync::into_raw ---------------------- *)

\* The pointer into_raw returns for an instance wrapping raw.
IntoRawValue(raw) == raw

\* An into_raw without core::mem::forget: self is dropped on return.
IntoRawDrops(log, i, raw) == DropGlue(log, i, raw)

\* The destroy log after into_raw(self): self is forgotten, not dropped.
IntoRawLog(log, i, raw) == Forget(log, i, raw)

IntoRaw(i) ==
    /\ ~panicked
    /\ Live(i)
    /\ destroyLog' = IntoRawLog(destroyLog, i, insts[i].raw)
    /\ insts' = [insts EXCEPT ![i].st = "released"]
    /\ tokens' = tokens (+) SetToBag({[h |-> IntoRawValue(insts[i].raw), src |-> "release"]})
    /\ last' = Rec("into_raw", i, IntoRawValue(insts[i].raw), "", Null, 0, NoBig,
                   OkUnit, NoBig)
    /\ UNCHANGED <<debugAssertions, allocated, pending, nativeCalls, panicked>>

(* ------------------------- native request-frame ----------------------- *)

\* OH_NativeVSync_RequestFrame(h, cb, data) returning status: the callbacks
\* armed afterwards.  A request that fails arms nothing.  self marks the
\* requests whose user-data carries the ownership of h.
NativeRequestFrame(pend, h, cb, data, self, status) ==
    IF status = 0
    THEN pend (+) SetToBag({[h |-> h, cb |-> cb, data |-> data, self |-> self]})
    ELSE pend

\* A request operation that asks the native service once more when its call
\* failed.
RequestFrameCallsRetrying(status) == IF status = 0 THEN 1 ELSE 2

\* The OH_NativeVSync_RequestFrame calls one request operation makes: the
\* single call in its body, whatever the status.
RequestFrameCalls(status) == 1

\* The counts after one request operation whose native call returned status.
CountRequest(calls, status) ==
    [calls EXCEPT !.request = @ + RequestFrameCalls(status), !.requestOps = @ + 1]

\* A Result that takes every non-negative native status for success.
RequestResultOkIfNonNegative(res) == IF res >= 0 THEN OkUnit ELSE RawErr(res)

\* The Result both request operations build from the native status.
RequestResult(res) == IF res = 0 THEN OkUnit ELSE RawErr(res)

(* -------------------- NativeVsync::request_raw_callback --------------- *)

\* A request_raw_callback that takes self by value: the instance is dropped
\* when the call returns.
RequestRawCallbackByValue(i, cb, data, status) ==
    /\ ~panicked
    /\ Live(i)
    /\ nativeCalls.request < MaxRequests
    /\ nativeCalls' = CountRequest(nativeCalls, status)
    /\ pending' = NativeRequestFrame(pending, insts[i].raw, cb, data, FALSE, status)
    /\ destroyLog' = DropGlue(destroyLog, i, insts[i].raw)
    /\ insts' = [insts EXCEPT ![i].st = "dropped"]
    /\ last' = Rec("request_raw_callback", i, insts[i].raw, cb, data, status, NoBig,
                   RequestResult(status), NoBig)
    /\ UNCHANGED <<debugAssertions, allocated, tokens, panicked>>

RequestRawCallback(i, cb, data, status) ==
    /\ ~panicked
    /\ Live(i)
    /\ nativeCalls.request < MaxRequests
    /\ nativeCalls' = CountRequest(nativeCalls, status)
    /\ pending' = NativeRequestFrame(pending, insts[i].raw, cb, data, FALSE, status)
    /\ last' = Rec("request_raw_callback", i, insts[i].raw, cb, data, status, NoBig,
                   RequestResult(status), NoBig)
    /\ UNCHANGED <<debugAssertions, insts, allocated, destroyLog, tokens, panicked>>

(* --------------- NativeVsync::request_raw_callback_with_self ---------- *)

\* A request_raw_callback_with_self that passes a null user-data pointer.
NullAsData(raw) == Null

\* The user-data request_raw_callback_with_self passes: self.raw as *mut c_void.
SelfAsData(raw) == raw

\* A request_raw_callback_with_self that never forgets self.
WithSelfNeverForgets(res) == FALSE

\* A request_raw_callback_with_self that forgets self whatever the status.
WithSelfAlwaysForgets(res) == TRUE

\* Whether request_raw_callback_with_self reaches core::mem::forget(self).
WithSelfForgets(res) == res = 0

RequestRawCallbackWithSelf(i, cb, status) ==
    /\ ~panicked
    /\ Live(i)
    /\ nativeCalls.request < MaxRequests
    /\ nativeCalls' = CountRequest(nativeCalls, status)
    /\ pending' = NativeRequestFrame(pending, insts[i].raw, cb,
                                     SelfAsData(insts[i].raw), TRUE, status)
    /\ IF WithSelfForgets(status)
       THEN /\ destroyLog' = Forget(destroyLog, i, insts[i].raw)
            /\ insts' = [insts EXCEPT ![i].st = "transferred"]
       ELSE /\ destroyLog' = DropGlue(destroyLog, i, insts[i].raw)
            /\ insts' = [insts EXCEPT ![i].st = "dropped"]
    /\ last' = Rec("request_raw_callback_with_self", i, insts[i].raw, cb,
                   SelfAsData(insts[i].raw), status, NoBig, RequestResult(status), NoBig)
    /\ UNCHANGED <<debugAssertions, allocated, tokens, panicked>>

\* request_raw_callback_with_self as the two steps another thread can see
\* it take.  First the native call, after which self still exists inside the
\* function, about to be forgotten or about to be dropped; the native service
\* may invoke the callback from here on.
WithSelfRequest(i, cb, status) ==
    /\ ~panicked
    /\ Live(i)
    /\ nativeCalls.request < MaxRequests
    /\ nativeCalls' = CountRequest(nativeCalls, status)
    /\ pending' = NativeRequestFrame(pending, insts[i].raw, cb,
                                     SelfAsData(insts[i].raw), TRUE, status)
    /\ insts' = [insts EXCEPT ![i].st = IF WithSelfForgets(status)
                                        THEN "forgetting" ELSE "dropping"]
    /\ last' = Rec("request_frame", i, insts[i].raw, cb, SelfAsData(insts[i].raw),
                   status, NoBig, RequestResult(status), NoBig)
    /\ UNCHANGED <<debugAssertions, allocated, destroyLog, tokens, panicked>>

\* Then the rest of the function: core::mem::forget(self) after a successful
\* native call, the drop of self at the end of the function otherwise.
WithSelfReturn(i) ==
    /\ i \in DOMAIN insts
    /\ insts[i].st \in {"forgetting", "dropping"}
    /\ IF insts[i].st = "forgetting"
       THEN /\ destroyLog' = Forget(destroyLog, i, insts[i].raw)
            /\ insts' = [insts EXCEPT ![i].st = "transferred"]
       ELSE /\ destroyLog' = DropGlue(destroyLog, i, insts[i].raw)
            /\ insts' = [insts EXCEPT ![i].st = "dropped"]
    /\ last' = Rec("with_self_return", i, insts[i].raw, "", Null, 0, NoBig, OkUnit, NoBig)
    /\ UNCHANGED <<debugAssertions, allocated, pending, tokens, nativeCalls, panicked>>

(* ------------------------ NativeVsync::get_period --------------------- *)

\* period > 0 for the i64 out-parameter (B = 63).
I64Positive(p) == BigLess(Big(0, 0), p)

\* A conversion that takes every negative period to 0.
AsU64Saturating(p) == IF BigLess(p, Big(0, 0)) THEN Big(0, 0) ELSE p

\* period as u64: a negative i64 wraps around by 2^64 = 2 * 2^63.
AsU64(p) == IF BigLess(p, Big(0, 0)) THEN Big(p.k + 2, p.r) ELSE p

\* A get_period that reports every failure as RawErr(1).
GetPeriodResultFixedCode(dbg, res, out) ==
    IF res = 0
    THEN IF dbg /\ ~I64Positive(out) THEN Panic ELSE OkUnit
    ELSE RawErr(1)

\* A get_period that returns Ok whatever the native status.
GetPeriodResultSwallowsErr(dbg, res, out) ==
    IF res = 0 /\ dbg /\ ~I64Positive(out) THEN Panic ELSE OkUnit

\* The Result of get_period for the native status and out-value; a failed
\* debug_assert! panics instead of returning.
GetPeriodResult(dbg, res, out) ==
    IF res = 0
    THEN IF dbg /\ ~I64Positive(out) THEN Panic ELSE OkUnit
    ELSE RawErr(res)

\* The u64 inside Ok(period).
GetPeriodValue(res, out) == IF res = 0 THEN AsU64(out) ELSE NoBig

\* The out-parameter after OH_NativeVSync_GetPeriod returned: what the
\* service wrote, or the initial -1 that a failing call is taken to leave.
PeriodLeft(status, out) == IF status = 0 THEN out ELSE Big(0, -1)

GetPeriod(i, status, out) ==
    /\ ~panicked
    /\ Live(i)
    /\ panicked' = (GetPeriodResult(debugAssertions, status, PeriodLeft(status, out)) = Panic)
    /\ last' = Rec("get_period", i, insts[i].raw, "", Null, status,
                   PeriodLeft(status, out),
                   GetPeriodResult(debugAssertions, status, PeriodLeft(status, out)),
                   GetPeriodValue(status, PeriodLeft(status, out)))
    /\ UNCHANGED <<debugAssertions, insts, allocated, destroyLog, pending, tokens,
                   nativeCalls>>

(* --------------------------- callback firing -------------------------- *)

\* The native service invokes an armed callback with its user-data, on its
\* own thread; the callback is one-shot.  The user-data of a consuming
\* request is the handle whose ownership the callback now holds.
FireCallback(p) ==
    /\ ~panicked
    /\ BagIn(p, pending)
    /\ pending' = pending (-) SetToBag({p})
    /\ tokens' = IF p.self
                 THEN tokens (+) SetToBag({[h |-> p.data, src |-> "callback"]})
                 ELSE tokens
    /\ last' = Rec("fire", 0, p.h, p.cb, p.data, 0, NoBig, OkUnit, NoBig)
    /\ UNCHANGED <<debugAssertions, insts, allocated, destroyLog, nativeCalls, panicked>>

(* ------------------------------- Drop --------------------------------- *)

\* A scope end that waits until no callback is armed on the handle.
DropAfterCallbacks(i) ==
    /\ Live(i)
    /\ \A p \in BagToSet(pending) : p.h # insts[i].raw
    /\ destroyLog' = DropGlue(destroyLog, i, insts[i].raw)
    /\ insts' = [insts EXCEPT ![i].st = "dropped"]
    /\ last' = Rec("drop", i, insts[i].raw, "", Null, 0, NoBig, OkUnit, NoBig)
    /\ UNCHANGED <<debugAssertions, allocated, pending, tokens, nativeCalls, panicked>>

\* The scope of live instance i ends (also while a panic unwinds).
Drop(i) ==
    /\ Live(i)
    /\ destroyLog' = DropGlue(destroyLog, i, insts[i].raw)
    /\ insts' = [insts EXCEPT ![i].st = "dropped"]
    /\ last' = Rec("drop", i, insts[i].raw, "", Null, 0, NoBig, OkUnit, NoBig)
    /\ UNCHANGED <<debugAssertions, allocated, pending, tokens, nativeCalls, panicked>>

(* ------------------------------- Next --------------------------------- *)

\* One step of the program or of the native callback thread, with the name
\* lengths, callbacks, native statuses and period values drawn from the
\* given sets.
NextOver(lens, cbs, statuses, outs) ==
    \/ \E len \in lens, raw \in Handles : New(len, raw)
    \/ \E tok \in BagToSet(tokens) : FromRaw(tok)
    \/ \E i \in 1..MaxInst : IntoRaw(i)
    \/ \E i \in 1..MaxInst, cb \in cbs, data \in DataPtrs, status \in statuses :
           RequestRawCallback(i, cb, data, status)
    \/ \E i \in 1..MaxInst, cb \in cbs, status \in statuses :
           RequestRawCallbackWithSelf(i, cb, status)
    \/ \E i \in 1..MaxInst, status \in statuses, out \in outs :
           GetPeriod(i, status, out)
    \/ \E p \in BagToSet(pending) : FireCallback(p)
    \/ \E i \in 1..MaxInst : Drop(i)

\* Inputs of the ownership runs: one name that fits, one callback, success
\* and one native error code, one period.
OwnLens == {Big(0, 4)}
OwnCallbacks == {"cbA"}
OwnStatuses == {0, -1}
OwnOuts == {Big(0, 16666667)}

Next == NextOver(OwnLens, OwnCallbacks, OwnStatuses, OwnOuts)

Spec == Init /\ [][Next]_vars

\* The value runs: a caller that holds one instance at a time, obtained from
\* new, and tries every sample name length, callback, status code and
\* period value on it.
ValuesNext ==
    \/ \E len \in NameLens, raw \in Handles : LiveInsts = {} /\ New(len, raw)
    \/ \E i \in 1..MaxInst, cb \in Callbacks, data \in DataPtrs, status \in Statuses :
           RequestRawCallback(i, cb, data, status)
    \/ \E i \in 1..MaxInst, cb \in Callbacks, status \in Statuses :
           RequestRawCallbackWithSelf(i, cb, status)
    \/ \E i \in 1..MaxInst, status \in Statuses, out \in PeriodOuts :
           GetPeriod(i, status, out)
    \/ \E i \in 1..MaxInst : Drop(i)

SpecValues == Init /\ [][ValuesNext]_vars

\* The chain runs: the requesting thread creates instances and gives each to
\* its callback with request_raw_callback_with_self or lets it drop; the native
\* callback thread fires the armed callbacks at any moment from the native
\* call on, and a fired callback adopts its user-data with from_raw; the
\* adopted instance is given away again or dropped.
ChainNext ==
    \/ \E len \in OwnLens, raw \in Handles : New(len, raw)
    \/ \E i \in 1..MaxInst, cb \in OwnCallbacks, status \in OwnStatuses :
           WithSelfRequest(i, cb, status)
    \/ \E i \in 1..MaxInst : WithSelfReturn(i)
    \/ \E p \in BagToSet(pending) : FireCallback(p)
    \/ \E tok \in BagToSet(tokens) : FromRaw(tok)
    \/ \E i \in 1..MaxInst : Drop(i)

SpecChain == Init /\ [][ChainNext]_vars

(* ------------------------------- claims ------------------------------- *)

\* Handles of native objects: every handle value but the null pointer.
NativeHandles == Handles \ {Null}

\* The step is the operation op applied to live instance i.
StepOn(op, i) == insts[i].st = "live" /\ last'.op = op /\ last'.inst = i

\* C1: the native destroy operation is never invoked more than once for the
\* same native handle.
C1_DestroyedAtMostOnce ==
    \A h \in Handles : DestroyCount(destroyLog, h) <= 1

\* The same for the handles of native objects alone.
NativeObjectDestroyedAtMostOnce ==
    \A h \in NativeHandles : DestroyCount(destroyLog, h) <= 1

\* C2: a request_raw_callback_with_self that returns Ok had native status 0,
\* consumes the instance without a native destroy call (the destroy calls are
\* the same after the step as before), and leaves the handle with the pending
\* callback, whose user-data it is: the instance is gone, no raw token is
\* made, no other instance changes, and no live instance wraps the handle of
\* a native object any more.
C2_ConsumingOkKeepsHandle ==
    [][\A i \in DOMAIN insts :
          (StepOn("request_raw_callback_with_self", i) /\ last'.res.tag = "Ok") =>
              LET h == insts[i].raw IN
              /\ last'.status = 0
              /\ destroyLog' = destroyLog
              /\ DestroyCount(destroyLog', h) = DestroyCount(destroyLog, h)
              /\ insts' = [insts EXCEPT ![i].st = "transferred"]
              /\ tokens' = tokens
              /\ pending' = pending (+)
                     SetToBag({[h |-> h, cb |-> last'.cb, data |-> h, self |-> TRUE]})
              /\ h # Null => \A j \in DOMAIN insts' :
                                 insts'[j].st = "live" => insts'[j].raw # h]_vars

C2_Witness ==
    /\ last.op = "request_raw_callback_with_self"
    /\ last.res = OkUnit
    /\ insts[last.inst].st = "transferred"
    /\ DestroyCount(destroyLog, last.h) = 0
    /\ \E p \in BagToSet(pending) : p.self /\ p.data = last.h

\* C3 as stated: a request_raw_callback_with_self that returns Err had a
\* nonzero native status, returns RawErr of exactly that status, invokes
\* native destroy exactly once on the instance's handle within the call, and
\* afterwards no callback is pending for the handle.  Stated for the
\* instances that wrap a native object, so that no null pointer is involved
\* where it fails.
C3_ConsumingErrLeavesNoCallback ==
    [][\A i \in DOMAIN insts :
          (/\ StepOn("request_raw_callback_with_self", i)
           /\ last'.res.tag = "Err"
           /\ insts[i].raw # Null) =>
              LET h == insts[i].raw IN
              /\ last'.status # 0
              /\ last'.res = RawErr(last'.status)
              /\ destroyLog' = destroyLog (+) SetToBag({[h |-> h, by |-> i]})
              /\ \A p \in BagToSet(pending') : p.h # h]_vars

\* C3 as amended: a request_raw_callback_with_self that returns Err had a
\* nonzero native status, returns RawErr of exactly that status, invokes
\* native destroy exactly once on the instance's handle within the call, and
\* arms no callback itself (the armed callbacks are the same after the call
\* as before); the call returns Err exactly when the status is nonzero.
C3_ConsumingErrDestroys ==
    [][\A i \in DOMAIN insts :
          StepOn("request_raw_callback_with_self", i) =>
              LET h == insts[i].raw IN
              /\ last'.res.tag \in {"Ok", "Err"}
              /\ last'.res.tag = "Err" <=> last'.status # 0
              /\ last'.res.tag = "Err" =>
                    /\ last'.res = RawErr(last'.status)
                    /\ destroyLog' = destroyLog (+) SetToBag({[h |-> h, by |-> i]})
                    /\ DestroysBy(destroyLog', i) = 1
                    /\ DestroyCount(destroyLog', h) = DestroyCount(destroyLog, h) + 1
                    /\ insts' = [insts EXCEPT ![i].st = "dropped"]
                    /\ pending' = pending
                    /\ tokens' = tokens]_vars

C3_Witness ==
    /\ last.op = "request_raw_callback_with_self"
    /\ last.res = RawErr(-1)
    /\ insts[last.inst].st = "dropped"
    /\ DestroysBy(destroyLog, last.inst) = 1
    /\ \A p \in BagToSet(pending) : ~p.self
    /\ \E p \in BagToSet(pending) : p.h = last.h

\* C4 as stated: every instance whose scope has ended and that was never
\* released with into_raw has invoked native destroy exactly once.  Stated
\* for the instances that wrap a native object, so that no null pointer is
\* involved where it fails.
C4_NeverReleasedDestroyedOnce ==
    \A i \in DOMAIN insts :
        (insts[i].st \notin {"live", "released"} /\ insts[i].raw # Null)
        => DestroysBy(destroyLog, i) = 1

\* C4 as amended: an instance that was dropped (by its scope end, or by the
\* failing request_raw_callback_with_self that consumed it) has invoked native
\* destroy exactly once, on its own handle; an instance that is still live,
\* was released with into_raw, or was consumed by a successful
\* request_raw_callback_with_self has invoked it zero times.
C4_DestroyedOnceAtScopeEnd ==
    \A i \in DOMAIN insts :
        IF insts[i].st = "dropped"
        THEN /\ DestroysBy(destroyLog, i) = 1
             /\ CopiesIn([h |-> insts[i].raw, by |-> i], destroyLog) = 1
        ELSE DestroysBy(destroyLog, i) = 0

\* create, request_raw_callback, drop: one destroy call, with the created
\* handle, while the requested callback is still armed.
C4_Witness ==
    /\ last.op = "drop"
    /\ insts[last.inst].via = "new"
    /\ insts[last.inst].raw # Null
    /\ \E p \in BagToSet(pending) : ~p.self /\ p.h = last.h
    /\ DestroyCount(destroyLog, last.h) = 1

\* C5: from_raw(into_raw(instance)), for a handle with no pending request,
\* yields a live instance wrapping the same handle value and makes no native
\* call; and the scope end of an instance made by from_raw destroys its
\* handle exactly once.
C5_RoundTrip ==
    [][/\ (/\ last.op = "into_raw"
           /\ last'.op = "from_raw"
           /\ last'.h = last.h
           /\ \A p \in BagToSet(pending) : p.h # last.h)
          => /\ last'.res = OkUnit
             /\ Len(insts') = Len(insts) + 1
             /\ insts'[Len(insts')].raw = insts[last.inst].raw
             /\ insts'[Len(insts')].st = "live"
             /\ nativeCalls' = nativeCalls
             /\ destroyLog' = destroyLog
             /\ pending' = pending
       /\ \A j \in DOMAIN insts :
             (StepOn("drop", j) /\ insts[j].via = "from_raw")
             => /\ destroyLog' = destroyLog (+) SetToBag({[h |-> insts[j].raw, by |-> j]})
                /\ DestroysBy(destroyLog', j) = 1]_vars

\* The round trip of C5 for the handles of native objects, where the handle
\* is moreover destroyed exactly once overall.
RoundTripNativeObject ==
    [][/\ (/\ last.op = "into_raw"
           /\ last'.op = "from_raw"
           /\ last'.h = last.h
           /\ last.h # Null
           /\ \A p \in BagToSet(pending) : p.h # last.h)
          => /\ last'.res = OkUnit
             /\ Len(insts') = Len(insts) + 1
             /\ insts'[Len(insts')].raw = insts[last.inst].raw
             /\ insts'[Len(insts')].st = "live"
             /\ nativeCalls' = nativeCalls
             /\ destroyLog' = destroyLog
             /\ pending' = pending
       /\ \A j \in DOMAIN insts :
             (StepOn("drop", j) /\ insts[j].via = "from_raw" /\ insts[j].raw # Null)
             => /\ destroyLog' = destroyLog (+) SetToBag({[h |-> insts[j].raw, by |-> j]})
                /\ DestroysBy(destroyLog', j) = 1
                /\ DestroyCount(destroyLog', insts[j].raw) = 1]_vars

\* C6: no two live instances wrap the same handle value, and a handle held by
\* a pending consuming callback or as a released raw token is wrapped by no
\* live instance.
C6_ExclusiveOwner ==
    /\ \A i, j \in LiveInsts : i # j => insts[i].raw # insts[j].raw
    /\ \A i \in LiveInsts :
          /\ \A tok \in BagToSet(tokens) : tok.h # insts[i].raw
          /\ \A p \in BagToSet(pending) : p.self => p.data # insts[i].raw

\* The same for the handles of native objects alone, each of which moreover
\* has at most one holder among live instances, raw tokens and pending
\* consuming callbacks.
Holders(h) ==
    Cardinality({i \in LiveInsts : insts[i].raw = h})
    + Sum(tokens, {tok \in DOMAIN tokens : tok.h = h})
    + Sum(pending, {p \in DOMAIN pending : p.self /\ p.data = h})

NativeObjectExclusiveOwner == \A h \in NativeHandles : Holders(h) <= 1

\* C7: into_raw consumes the instance, returns exactly the handle value it
\* wrapped and makes no native call; the released instance never invokes
\* native destroy afterwards, and while the returned handle of a native object
\* waits to be adopted no destroy call is made on it.
C7_IntoRawDisarms ==
    [][/\ \A i \in DOMAIN insts :
             StepOn("into_raw", i) =>
                 /\ last'.h = insts[i].raw
                 /\ last'.res = OkUnit
                 /\ insts' = [insts EXCEPT ![i].st = "released"]
                 /\ tokens' = tokens (+) SetToBag({[h |-> insts[i].raw, src |-> "release"]})
                 /\ destroyLog' = destroyLog
                 /\ nativeCalls' = nativeCalls
                 /\ pending' = pending
       /\ \A i \in DOMAIN insts :
             insts[i].st = "released" =>
                 /\ insts'[i] = insts[i]
                 /\ DestroysBy(destroyLog', i) = 0
       /\ \A h \in NativeHandles :
             (/\ BagIn([h |-> h, src |-> "release"], tokens)
              /\ BagIn([h |-> h, src |-> "release"], tokens'))
             => DestroyCount(destroyLog', h) = DestroyCount(destroyLog, h)]_vars

\* A released handle of a native object, not adopted, after the run went on.
C7_Witness ==
    \E i \in DOMAIN insts :
        /\ insts[i].st = "released"
        /\ insts[i].raw # Null
        /\ BagIn([h |-> insts[i].raw, src |-> "release"], tokens)
        /\ DestroyCount(destroyLog, insts[i].raw) = 0
        /\ last.op = "drop"

\* C8: new with a name longer than 2^32 - 1 bytes returns InvalidArgs and
\* makes no native call: no create, no destroy, no request, and no instance
\* comes to exist.
C8_LongNameInvalidArgs ==
    [][(last'.op = "new" /\ BigLess(U32Max, last'.out)) =>
          /\ last'.res = InvalidArgs
          /\ nativeCalls' = nativeCalls
          /\ allocated' = allocated
          /\ insts' = insts
          /\ destroyLog' = destroyLog
          /\ pending' = pending
          /\ tokens' = tokens]_vars

C8_Witness ==
    /\ last.op = "new"
    /\ last.out = Big(1, 0)
    /\ last.res = InvalidArgs
    /\ nativeCalls.create = 0

C11_RequestRawCallbackResult ==
    [][\A i \in DOMAIN insts :
          StepOn("request_raw_callback", i) =>
              /\ last'.res.tag \in {"Ok", "Err"}
              /\ last'.res = OkUnit <=> last'.status = 0
              /\ last'.status # 0 => last'.res = RawErr(last'.status)
              /\ last'.h = insts[i].raw
              /\ nativeCalls'.request = nativeCalls.request + 1
              /\ pending' = IF last'.status = 0
                            THEN pending (+) SetToBag({[h |-> insts[i].raw,
                                                        cb |-> last'.cb,
                                                        data |-> last'.data,
                                                        self |-> FALSE]})
                            ELSE pending]_vars

\* A request that succeeded with callback cbB and the caller's user-data,
\* then one that failed with the native status 12345.
C11_Witness ==
    /\ last.op = "request_raw_callback"
    /\ last.status = 12345
    /\ last.res = RawErr(12345)
    /\ \E p \in BagToSet(pending) :
          p.h = last.h /\ p.cb = "cbB" /\ p.data \in DataPtrs /\ ~p.self

\* C12: a request_raw_callback or get_period that returns Ok or Err leaves
\* ownership as it was: the instance is still live and wraps the same handle,
\* no other instance changes, no raw token is made and the call invokes no
\* native destroy; and the scope end of a live instance, whatever borrowing
\* calls were made on it before, invokes native destroy exactly once, on its
\* handle, which for a native object is the only destroy call it ever gets.
C12_BorrowingKeepsOwnership ==
    [][\A i \in DOMAIN insts :
          /\ (/\ StepOn("request_raw_callback", i) \/ StepOn("get_period", i)
              /\ last'.res.tag \in {"Ok", "Err"})
             => /\ insts' = insts
                /\ insts'[i].st = "live"
                /\ insts'[i].raw = insts[i].raw
                /\ last'.h = insts[i].raw
                /\ destroyLog' = destroyLog
                /\ tokens' = tokens
          /\ StepOn("drop", i)
             => /\ destroyLog' = destroyLog (+) SetToBag({[h |-> insts[i].raw, by |-> i]})
                /\ DestroysBy(destroyLog', i) = 1
                /\ insts[i].raw # Null => DestroyCount(destroyLog', insts[i].raw) = 1]_vars

\* An instance of a native object after a request_raw_callback that returned
\* Ok (its callback is armed) and a get_period that returned Err: still live,
\* its handle not destroyed.
C12_Witness ==
    /\ last.op = "get_period"
    /\ last.res = RawErr(-1)
    /\ last.h # Null
    /\ insts[last.inst].st = "live"
    /\ insts[last.inst].raw = last.h
    /\ \E p \in BagToSet(pending) : ~p.self /\ p.h = last.h
    /\ DestroyCount(destroyLog, last.h) = 0

\* C13: the user-data request_raw_callback_with_self passes to the native
\* request-frame call is the instance's own raw handle value, null or not;
\* every pending consuming callback therefore carries as user-data the handle
\* its request was made on, its firing delivers exactly that value, and a
\* from_raw that returns yields a live instance wrapping the value it was
\* given.  For the handle of a native object from_raw always returns.
C13_SelfIsUserData ==
    [][/\ \A i \in DOMAIN insts :
             StepOn("request_raw_callback_with_self", i) =>
                 /\ last'.data = insts[i].raw
                 /\ last'.h = insts[i].raw
                 /\ last'.status = 0 =>
                        pending' = pending (+)
                            SetToBag({[h |-> insts[i].raw, cb |-> last'.cb,
                                       data |-> insts[i].raw, self |-> TRUE]})
       /\ \A p \in BagToSet(pending) : p.self => p.data = p.h
       /\ \A p \in BagToSet(pending) :
             (p.self /\ last'.op = "fire" /\ pending' = pending (-) SetToBag({p})) =>
                 tokens' = tokens (+) SetToBag({[h |-> p.h, src |-> "callback"]})
       /\ last'.op = "from_raw" =>
             /\ \E tok \in BagToSet(tokens) :
                   tok.h = last'.h /\ tokens' = tokens (-) SetToBag({tok})
             /\ last'.h # Null => last'.res = OkUnit
             /\ last'.res = OkUnit =>
                   /\ insts' = Append(insts, [raw |-> last'.h, st |-> "live",
                                              via |-> "from_raw"])
                   /\ last'.inst = Len(insts')
                   /\ destroyLog' = destroyLog]_vars

\* The first instance gave itself to its callback, the callback fired, and
\* from_raw on the delivered user-data made the second instance, which wraps
\* the handle the first one wrapped.
C13_Witness ==
    /\ last.op = "from_raw"
    /\ last.res = OkUnit
    /\ last.inst = 2
    /\ insts[1].st = "transferred"
    /\ insts[1].raw # Null
    /\ insts[2] = [raw |-> insts[1].raw, st |-> "live", via |-> "from_raw"]
    /\ pending = EmptyBag
    /\ tokens = EmptyBag
    /\ destroyLog = EmptyBag

\* The operations that return a Result.
FallibleOps ==
    {"new", "request_raw_callback", "request_raw_callback_with_self", "get_period"}

\* C14 as stated: every failure of new, request_raw_callback,
\* request_raw_callback_with_self and get_period is returned as an error
\* value, and an operation that returns an error changes neither the
\* ownership state (instances, raw tokens, pending callbacks) nor the native
\* destroy calls.  Stated for the runs in which no instance wraps a null
\* pointer, so that no null pointer is involved where it fails.
C14_FailureChangesNothing ==
    [][(/\ last'.op \in FallibleOps
        /\ \A i \in DOMAIN insts : insts[i].raw # Null)
       => /\ (last'.op = "new" /\ BigLess(U32Max, last'.out)) => last'.res = InvalidArgs
          /\ last'.status # 0 => last'.res = RawErr(last'.status)
          /\ last'.res.tag = "Err" =>
                /\ insts' = insts
                /\ tokens' = tokens
                /\ pending' = pending
                /\ destroyLog' = destroyLog]_vars

\* C14 as amended: a name too long for new and a nonzero native status of
\* request_raw_callback, request_raw_callback_with_self or get_period are
\* returned as InvalidArgs and as RawErr of the status; a failing new,
\* request_raw_callback or get_period changes no instance, raw token, pending
\* callback or destroy call, the failing get_period writing one diagnostic
\* line and no other operation any; a failing request_raw_callback_with_self
\* consumes its instance and invokes native destroy exactly once on its handle,
\* changing nothing else.
C14_FailureEffects ==
    [][/\ last'.op \in FallibleOps =>
             /\ (last'.op = "new" /\ BigLess(U32Max, last'.out)) =>
                    last'.res = InvalidArgs
             /\ last'.status # 0 => last'.res = RawErr(last'.status)
             /\ last'.log = IF last'.op = "get_period" /\ last'.status # 0 THEN 1 ELSE 0
             /\ (/\ last'.res.tag = "Err"
                 /\ last'.op # "request_raw_callback_with_self") =>
                    /\ insts' = insts
                    /\ tokens' = tokens
                    /\ pending' = pending
                    /\ destroyLog' = destroyLog
                    /\ allocated' = allocated
                    /\ panicked' = panicked
       /\ \A i \in DOMAIN insts :
             (StepOn("request_raw_callback_with_self", i) /\ last'.res.tag = "Err") =>
                 /\ insts' = [insts EXCEPT ![i].st = "dropped"]
                 /\ destroyLog' = destroyLog (+)
                        SetToBag({[h |-> insts[i].raw, by |-> i]})
                 /\ tokens' = tokens
                 /\ pending' = pending
                 /\ panicked' = panicked]_vars

\* A failing get_period on a live instance, its handle not destroyed, after
\* a request_raw_callback_with_self that failed on an earlier instance, which
\* it destroyed.
C14_Witness ==
    /\ last.op = "get_period"
    /\ last.res = RawErr(12345)
    /\ last.log = 1
    /\ insts[last.inst].st = "live"
    /\ DestroyCount(destroyLog, last.h) = 0
    /\ \E i \in DOMAIN insts :
          insts[i].st = "dropped" /\ DestroysBy(destroyLog, i) = 1

\* The handle values wrapped by an instance at some time.
Wrapped == {insts[i].raw : i \in DOMAIN insts}

\* The holders of handle h in a chain run: the instances that will still
\* drop it (live, or inside a request_raw_callback_with_self whose native call
\* failed), the pending consuming callbacks, and the fired callbacks that have
\* not yet adopted their user-data.
ChainHolders(h) ==
    Cardinality({i \in DOMAIN insts :
                    insts[i].raw = h /\ insts[i].st \in {"live", "dropping"}})
    + Sum(tokens, {tok \in DOMAIN tokens : tok.h = h})
    + Sum(pending, {p \in DOMAIN pending : p.self /\ p.data = h})

\* C15: in the chain runs, under every interleaving of the requesting thread
\* and the callback thread, a handle is never destroyed twice, is never
\* destroyed while a request on it is pending, and at every moment either is
\* held by exactly one holder and not destroyed, or is held by none and
\* destroyed exactly once (never leaked).
C15_ChainOwnership ==
    \A h \in Wrapped :
        /\ DestroyCount(destroyLog, h) <= 1
        /\ (\E p \in BagToSet(pending) : p.h = h) => DestroyCount(destroyLog, h) = 0
        /\ ChainHolders(h) + DestroyCount(destroyLog, h) = 1

\* The same for the handles of native objects alone.
ChainOwnershipNativeObject ==
    \A h \in Wrapped \ {Null} :
        /\ DestroyCount(destroyLog, h) <= 1
        /\ (\E p \in BagToSet(pending) : p.h = h) => DestroyCount(destroyLog, h) = 0
        /\ ChainHolders(h) + DestroyCount(destroyLog, h) = 1

\* A chain of two links that stopped: the first instance gave itself away,
\* the callback adopted the handle and the adopted instance's failed request
\* destroyed it.
ChainStopped ==
    /\ Len(insts) = 2
    /\ insts[1].st = "transferred"
    /\ insts[1].raw # Null
    /\ insts[2] = [raw |-> insts[1].raw, st |-> "dropped", via |-> "from_raw"]
    /\ last.op = "with_self_return"
    /\ DestroyCount(destroyLog, insts[1].raw) = 1

\* The callback fired and its instance was dropped while the requesting
\* thread was still inside request_raw_callback_with_self.
FiredBeforeReturn ==
    /\ Len(insts) = 2
    /\ insts[1].st = "forgetting"
    /\ insts[2].st = "dropped"
    /\ insts[2].raw = insts[1].raw
    /\ insts[1].raw # Null

\* C16: destruction is not mediated while a borrowing request is outstanding.
\* The scope end of a live instance can happen in every state, whatever
\* callbacks are armed on its handle; when it happens it invokes native
\* destroy at once and withdraws no callback; and an armed callback can fire
\* whether or not its handle has been destroyed.
C16_DestroyNotMediated ==
    /\ [](\A i \in LiveInsts : ENABLED Drop(i))
    /\ [](\A p \in BagToSet(pending) : ~panicked => ENABLED FireCallback(p))
    /\ [][\A i \in DOMAIN insts :
             StepOn("drop", i) =>
                 /\ destroyLog' = destroyLog (+)
                        SetToBag({[h |-> insts[i].raw, by |-> i]})
                 /\ pending' = pending]_vars

\* The callback of a request_raw_callback fired after the handle of its
\* native object had been destroyed by the instance's scope end.
C16_Witness ==
    /\ last.op = "fire"
    /\ last.data \in DataPtrs
    /\ last.h # Null
    /\ DestroyCount(destroyLog, last.h) = 1
    /\ \E i \in DOMAIN insts :
          /\ insts[i] = [raw |-> last.h, st |-> "dropped", via |-> "new"]
          /\ DestroysBy(destroyLog, i) = 1

\* The two request operations.
RequestOps == {"request_raw_callback", "request_raw_callback_with_self"}

\* C17: the native request-frame calls made are always as many as the
\* request operations invoked; every request_raw_callback and
\* request_raw_callback_with_self step makes exactly one native call, whatever
\* is already armed and whatever the status, arms exactly one more callback
\* (its own) when the status is 0 and none otherwise; and no other step makes
\* a native request-frame call or arms a callback.
C17_RequestsPassThrough ==
    /\ [](nativeCalls.request = nativeCalls.requestOps)
    /\ [][/\ \A i \in DOMAIN insts :
                (StepOn("request_raw_callback", i)
                 \/ StepOn("request_raw_callback_with_self", i)) =>
                    /\ nativeCalls'.request = nativeCalls.request + 1
                    /\ nativeCalls'.requestOps = nativeCalls.requestOps + 1
                    /\ BagCardinality(pending') =
                           BagCardinality(pending) + (IF last'.status = 0 THEN 1 ELSE 0)
                    /\ last'.status = 0 =>
                           pending' = pending (+) SetToBag({
                               [h |-> insts[i].raw, cb |-> last'.cb, data |-> last'.data,
                                self |-> last'.op = "request_raw_callback_with_self"]})
          /\ last'.op \notin RequestOps =>
                /\ nativeCalls'.request = nativeCalls.request
                /\ nativeCalls'.requestOps = nativeCalls.requestOps
                /\ BagCardinality(pending') <= BagCardinality(pending)]_vars

\* Three request operations on one instance: two succeeded, their callbacks
\* both still armed on the same handle, and one failed.
C17_Witness ==
    /\ nativeCalls.requestOps = 3
    /\ nativeCalls.request = 3
    /\ BagCardinality(pending) = 2
    /\ \A p \in BagToSet(pending) : p.h = last.h
    /\ last.op \in RequestOps
    /\ last.res = RawErr(-1)

\* C18 as stated: whenever get_period returns Ok(p), p is strictly positive,
\* whatever value the native service left in the out-parameter.  Stated for
\* the instances that wrap a native object, so that no null pointer is
\* involved where it fails.
C18_OkPeriodPositive ==
    (last.op = "get_period" /\ last.res.tag = "Ok" /\ last.h # Null)
    => BigLess(Big(0, 0), last.val)

\* C18 as amended: whenever get_period returns Ok(p), the status was 0 and p
\* is the out-value as u64, a negative value v read as 2^64 + v; p is strictly
\* positive unless the out-value is 0, which only a build without debug
\* assertions returns, as Ok(0); with debug assertions an Ok carries a
\* strictly positive out-value unchanged, a non-positive one ending in a
\* panic instead of a return.
C18_OkPeriodIsOutAsU64 ==
    last.op = "get_period" =>
        /\ last.res.tag = "Ok" =>
              /\ last.status = 0
              /\ last.val = IF BigLess(last.out, Big(0, 0))
                            THEN Big(last.out.k + 2, last.out.r)
                            ELSE last.out
              /\ last.out # Big(0, 0) => BigLess(Big(0, 0), last.val)
              /\ last.out = Big(0, 0) => (~debugAssertions /\ last.val = Big(0, 0))
              /\ debugAssertions =>
                    (BigLess(Big(0, 0), last.out) /\ last.val = last.out)
        /\ last.res = Panic <=>
              (debugAssertions /\ last.status = 0 /\ ~BigLess(Big(0, 0), last.out))

\* Without debug assertions the native service left -1 on status 0:
\* get_period returned Ok(2^64 - 1).
C18_Witness ==
    /\ last.op = "get_period"
    /\ ~debugAssertions
    /\ last.status = 0
    /\ last.out = Big(0, -1)
    /\ last.res = OkUnit
    /\ last.val = Big(2, -1)

\* The instances that wrap the null pointer.
NullInsts == {i \in DOMAIN insts : insts[i].raw = Null}

\* C19: a new whose native create call returned null returns Ok with a live
\* instance wrapping null; every operation on such an instance makes its
\* native call with the null handle and has the effect it has on any
\* instance; its scope end, or its failing request_raw_callback_with_self,
\* invokes native destroy with null, once per instance, so that the destroy
\* calls on null are as many as the null instances dropped, two for two.
C19_NullInstanceIsAnOwner ==
    /\ [](DestroyCount(destroyLog, Null) =
              Cardinality({i \in NullInsts : insts[i].st = "dropped"}))
    /\ [][/\ (last'.op = "new" /\ last'.res.tag = "Ok" /\ last'.h = Null) =>
                /\ insts' = Append(insts, [raw |-> Null, st |-> "live", via |-> "new"])
                /\ last'.res = OkUnit
          /\ \A i \in NullInsts :
                /\ (\E op \in RequestOps \cup {"get_period", "into_raw", "drop"} :
                       StepOn(op, i)) => last'.h = Null
                /\ (\E op \in RequestOps : StepOn(op, i)) =>
                       /\ nativeCalls'.request = nativeCalls.request + 1
                       /\ last'.res = IF last'.status = 0 THEN OkUnit
                                      ELSE RawErr(last'.status)
                       /\ last'.status = 0 =>
                              \E p \in BagToSet(pending') :
                                  /\ p.h = Null
                                  /\ CopiesIn(p, pending') = CopiesIn(p, pending) + 1
                /\ (StepOn("request_raw_callback", i) \/ StepOn("get_period", i)) =>
                       (insts' = insts /\ destroyLog' = destroyLog)
                /\ (\/ StepOn("drop", i)
                    \/ (/\ StepOn("request_raw_callback_with_self", i)
                        /\ last'.res.tag = "Err")) =>
                       /\ destroyLog' = destroyLog (+)
                              SetToBag({[h |-> Null, by |-> i]})
                       /\ DestroysBy(destroyLog', i) = 1
                       /\ insts' = [insts EXCEPT ![i].st = "dropped"]]_vars

\* Two creations whose native call returned null, both instances at their
\* scope end, one by a failing request_raw_callback_with_self: two destroy
\* calls on null.
C19_Witness ==
    /\ Len(insts) = 2
    /\ \A i \in DOMAIN insts : insts[i] = [raw |-> Null, st |-> "dropped", via |-> "new"]
    /\ DestroyCount(destroyLog, Null) = 2
    /\ DestroysBy(destroyLog, 1) = 1
    /\ DestroysBy(destroyLog, 2) = 1
    /\ last.op = "request_raw_callback_with_self"
    /\ last.res = RawErr(-1)

====
